---- MODULE Spec2Model ----
(***************************************************************************)
(* The statement / cursor / result-set protocol of the sqlite3 driver.     *)
(*                                                                         *)
(* The model follows one compiled query (Statement) of one open            *)
(* Connection and every Cursor / ClassicResultSet that Execute hands out   *)
(* for it.  The SQLite engine is an external collaborator: its calls are   *)
(* the Sql* operators below, written after the documented behaviour of the *)
(* C interface the driver calls (sqlite3_step, sqlite3_reset, ...).  What  *)
(* the engine is free to choose (a step failing with SQLITE_BUSY, a bind   *)
(* failing with SQLITE_NOMEM, ...) is an input of the action that makes    *)
(* the call.                                                               *)
(*                                                                         *)
(* The specifications share the variables:                                 *)
(*   Spec            Prepare, Execute, the fetches and the cursor Close    *)
(*   LifecycleSpec   Spec with Statement.Close, String, and the calls made *)
(*                   on a Statement that is closed                         *)
(*   ChannelSpec     the channel-based Execute: the task running iterate   *)
(*                   and its consumer (LiveChannelSpec adds fairness)      *)
(*   OpenSpec        the package's init and open(url): parseConnInfo and   *)
(*                   the engine calls that set up a session                *)
(*   ProgramSpec     init, open, and then Spec on the Connection opened    *)
(*   BindSpec        Execute on statements with several parameter slots    *)
(*   ErrorSpec       Connection.error on the codes the engine reports      *)
(***************************************************************************)
EXTENDS Integers, Sequences

(* ------------------------------ bounds -------------------------------- *)
\* most rows a query of the model produces
MaxRows == 3
\* most "?" slots a query of the model declares
MaxParams == 1
\* most result columns of a query of the model
MaxCols == 1
\* Cursors / ClassicResultSets the caller holds on to
MaxCursors == 2
\* largest count handed to FetchMany
MaxCount == 5

\* engine calls that fail of their own accord while one channel is fed
MaxFaults == 1
\* Results the log of a channel keeps
MaxLog == 4

\* FetchAll's loop has no bound of its own in the code; the model stops
\* unrolling it after MaxLoop rounds and reports done = FALSE.
MaxLoop == MaxRows + 3

(* ------------------------------ values -------------------------------- *)
StatusOk == "SQLITE_OK"
StatusRow == "SQLITE_ROW"
StatusDone == "SQLITE_DONE"
\* any other status of the engine (SQLITE_BUSY, SQLITE_MISUSE, ...)
StatusError == "SQLITE_ERROR"
NoStatus == "none"

\* os.Error values: nil, *DriverError, *SystemError
Nil == "nil"
DriverError == "DriverError"
SystemError == "SystemError"

\* a nil slice / nil map
NoData == <<>>
\* a slot no value is bound to
Unbound == <<"NULL", 0>>
\* the text the caller passes as its i-th parameter
ParamText(i) == <<"text", i>>
\* GoString of the NULL pointer column_text gives when no row is current
NullText == <<0, 0>>

\* what the engine does with one call: carry on, or fail it
Outcomes == {"go", "fail"}

\* one entry of the log of engine calls an operation made
Call(name, arg, rc) == <<name, arg, rc>>
CallNames(calls) == {calls[i][1] : i \in 1..Len(calls)}
\* the calls of the log with the given name
CallsOf(calls, name) == SelectSeq(calls, LAMBDA x : x[1] = name)

(* ------------------------- the compiled query ------------------------- *)
\* Statement.handle: nil before Prepare; the engine's sqlite3_stmt after it.
\*   k, nrows, ncols  what the SQL text compiles to
\*   vm, pos          evaluation state: "ready" (reset), "row" (row pos is
\*                    current), "done", "error"
\*   bind             the value bound to each slot
\*   resetSince / clearSince
\*                    sqlite3_reset / sqlite3_clear_bindings was called
\*                    after the last sqlite3_step
NoStatement ==
    [handle |-> "nil", k |-> 0, nrows |-> 0, ncols |-> 0, vm |-> "ready",
     pos |-> 0, bind |-> <<>>, resetSince |-> TRUE, clearSince |-> TRUE]

\* the queries Prepare is given: a query that yields rows has columns
Queries ==
    {q \in [k : 0..MaxParams, nrows : 0..MaxRows, ncols : 0..MaxCols] :
        q.nrows > 0 => q.ncols > 0}

\* reset, no value bound, nothing pending: ready for a new execution
Idle(e) ==
    /\ e.handle = "live"
    /\ e.vm = "ready"
    /\ e.resetSince
    /\ e.clearSince
    /\ \A i \in 1..e.k : e.bind[i] = Unbound

(* ----------------------------- the engine ----------------------------- *)
\* sqlite3_step: the next row, completion, or an error status.  Stepping a
\* statement that has not been reset since it failed or completed is
\* SQLITE_MISUSE in the engine versions of the time ("fail") and starts the
\* evaluation over in later ones ("go").
SqlStep(e, o) ==
    LET from == IF e.vm = "row" THEN e.pos ELSE 0
        stepped == [e EXCEPT !.resetSince = FALSE, !.clearSince = FALSE]
    IN  IF o = "fail"
        THEN [e |-> [stepped EXCEPT !.vm = "error", !.pos = 0], rc |-> StatusError]
        ELSE IF from < e.nrows
             THEN [e |-> [stepped EXCEPT !.vm = "row", !.pos = from + 1],
                   rc |-> StatusRow]
             ELSE [e |-> [stepped EXCEPT !.vm = "done", !.pos = 0],
                   rc |-> StatusDone]

\* sqlite3_reset: always resets; reports the error of the last step if that
\* step failed, SQLITE_OK otherwise.
SqlReset(e) ==
    [e |-> [e EXCEPT !.vm = "ready", !.pos = 0, !.resetSince = TRUE],
     rc |-> IF e.vm = "error" THEN StatusError ELSE StatusOk]

\* sqlite3_clear_bindings: every slot back to NULL
SqlClearBindings(e) ==
    [e |-> [e EXCEPT !.bind = [i \in 1..e.k |-> Unbound], !.clearSince = TRUE],
     rc |-> StatusOk]

\* sqlite3_bind_text with SQLITE_TRANSIENT (wsq_bind_text): the engine keeps
\* its own copy of the text; SQLITE_MISUSE on a statement that is not reset,
\* SQLITE_RANGE on a slot that does not exist.
SqlBindText(e, i, text, o) ==
    IF o = "fail" \/ e.vm # "ready" \/ i \notin 1..e.k
    THEN [e |-> e, rc |-> StatusError]
    ELSE [e |-> [e EXCEPT !.bind[i] = text], rc |-> StatusOk]

SqlBindParameterCount(e) == e.k

SqlColumnCount(e) == e.ncols

\* wsq_column_text of column i (0-based) of the current row
SqlColumnText(e, i) == IF e.vm = "row" THEN <<e.pos, i>> ELSE NullText

\* wsq_column_name of column i (0-based)
SqlColumnName(e, i) == <<"column", i>>

\* the row the caller gets for row number j of a query with n columns
RowData(j, n) == [i \in 1..n |-> <<j, i - 1>>]

(* ----------------------- Connection and Statement --------------------- *)
\* Connection.error: a SystemError from the session's last-error slot
ConnectionError ==
    [error |-> SystemError,
     calls |-> <<Call("sqlite3_errcode", 0, ""), Call("sqlite3_errmsg", 0, "")>>]

\* Statement.clear as it would be without the call of sqlite3_clear_bindings
StatementClearResetOnly(e) ==
    LET r == SqlReset(e)
    IN  IF r.rc = StatusOk
        THEN [e |-> r.e, error |-> Nil, calls |-> <<Call("sqlite3_reset", 0, r.rc)>>]
        ELSE [e |-> r.e, error |-> ConnectionError.error,
              calls |-> <<Call("sqlite3_reset", 0, r.rc)>> \o ConnectionError.calls]

\* Statement.clear: reset, and clear the bindings if the reset reported OK
StatementClear(e) ==
    LET r == SqlReset(e)
        c == SqlClearBindings(r.e)
    IN  IF r.rc = StatusOk
        THEN IF c.rc = StatusOk
             THEN [e |-> c.e, error |-> Nil,
                   calls |-> <<Call("sqlite3_reset", 0, r.rc),
                               Call("sqlite3_clear_bindings", 0, c.rc)>>]
             ELSE [e |-> c.e, error |-> ConnectionError.error,
                   calls |-> <<Call("sqlite3_reset", 0, r.rc),
                               Call("sqlite3_clear_bindings", 0, c.rc)>>
                             \o ConnectionError.calls]
        ELSE [e |-> r.e, error |-> ConnectionError.error,
              calls |-> <<Call("sqlite3_reset", 0, r.rc)>> \o ConnectionError.calls]

\* the bind loop as it would be if it filled the slots from the last one down
RECURSIVE ExecuteBindLoopReversed(_, _, _, _, _)
ExecuteBindLoopReversed(e, params, i, bindFail, calls) ==
    IF i > Len(params)
    THEN [e |-> e, error |-> Nil, calls |-> calls]
    ELSE LET slot == Len(params) + 1 - i
             b == SqlBindText(e, slot, params[i],
                              IF i = bindFail THEN "fail" ELSE "go")
             bound == Append(calls, Call("sqlite3_bind_text", slot, b.rc))
             cl == StatementClear(b.e)
         IN  IF b.rc # StatusOk
             THEN [e |-> cl.e, error |-> ConnectionError.error,
                   calls |-> bound \o ConnectionError.calls \o cl.calls]
             ELSE ExecuteBindLoopReversed(b.e, params, i + 1, bindFail, bound)

\* the bind loop as it would be if it cleaned up before reading the error
RECURSIVE ExecuteBindLoopClearsFirst(_, _, _, _, _)
ExecuteBindLoopClearsFirst(e, params, i, bindFail, calls) ==
    IF i > Len(params)
    THEN [e |-> e, error |-> Nil, calls |-> calls]
    ELSE LET b == SqlBindText(e, i, params[i], IF i = bindFail THEN "fail" ELSE "go")
             bound == Append(calls, Call("sqlite3_bind_text", i, b.rc))
             cl == StatementClear(b.e)
         IN  IF b.rc # StatusOk
             THEN [e |-> cl.e, error |-> ConnectionError.error,
                   calls |-> bound \o cl.calls \o ConnectionError.calls]
             ELSE ExecuteBindLoopClearsFirst(b.e, params, i + 1, bindFail, bound)

\* ExecuteClassic, the loop over the parameters: bind parameter i to slot i;
\* at the first bind the engine refuses, read the error, clear the statement
\* and give up.  bindFail is the parameter whose bind the engine fails
\* (0: none).
RECURSIVE ExecuteBindLoop(_, _, _, _, _)
ExecuteBindLoop(e, params, i, bindFail, calls) ==
    IF i > Len(params)
    THEN [e |-> e, error |-> Nil, calls |-> calls]
    ELSE LET b == SqlBindText(e, i, params[i], IF i = bindFail THEN "fail" ELSE "go")
             bound == Append(calls, Call("sqlite3_bind_text", i, b.rc))
             cl == StatementClear(b.e)
         IN  IF b.rc # StatusOk
             THEN [e |-> cl.e, error |-> ConnectionError.error,
                   calls |-> bound \o ConnectionError.calls \o cl.calls]
             ELSE ExecuteBindLoop(b.e, params, i + 1, bindFail, bound)

\* ExecuteClassic's first step as it would be if only an error, not
\* SQLITE_DONE, made it clear the statement
ExecuteStepClearsOnErrorOnly(e, calls, o) ==
    LET s == SqlStep(e, o)
        stepped == Append(calls, Call("sqlite3_step", 0, s.rc))
        cl == StatementClear(s.e)
    IN  IF s.rc = StatusRow
        THEN [rset |-> TRUE, e |-> s.e, error |-> Nil, rc |-> s.rc,
              calls |-> stepped]
        ELSE IF s.rc = StatusDone
        THEN [rset |-> FALSE, e |-> s.e, error |-> Nil, rc |-> s.rc,
              calls |-> stepped]
        ELSE [rset |-> FALSE, e |-> cl.e, error |-> ConnectionError.error,
              rc |-> s.rc,
              calls |-> stepped \o ConnectionError.calls \o cl.calls]

\* ExecuteClassic, after the binding: take the first step.  A row: hand out
\* a result set with more = TRUE.  Anything else: clear the statement, and
\* report the engine's error unless the step said SQLITE_DONE.
ExecuteStep(e, calls, o) ==
    LET s == SqlStep(e, o)
        stepped == Append(calls, Call("sqlite3_step", 0, s.rc))
        failed == s.rc # StatusDone /\ s.rc # StatusRow
        error == IF failed THEN ConnectionError.error ELSE Nil
        read == IF failed THEN stepped \o ConnectionError.calls ELSE stepped
        cl == StatementClear(s.e)
    IN  IF s.rc = StatusRow
        THEN [rset |-> TRUE, e |-> s.e, error |-> error, rc |-> s.rc,
              calls |-> read]
        ELSE [rset |-> FALSE, e |-> cl.e, error |-> error, rc |-> s.rc,
              calls |-> read \o cl.calls]

\* ExecuteClassic as it would be if it refused too few parameters only
ExecuteClassicAtLeast(e, isStatement, params, bindFail, o) ==
    LET counted == <<Call("sqlite3_bind_parameter_count", 0, "")>>
        b == ExecuteBindLoop(e, params, 1, bindFail, counted)
    IN  IF ~isStatement
        THEN [rset |-> FALSE, e |-> e, error |-> DriverError, rc |-> NoStatus,
              calls |-> <<>>]
        ELSE IF Len(params) < SqlBindParameterCount(e)
        THEN [rset |-> FALSE, e |-> e, error |-> DriverError, rc |-> NoStatus,
              calls |-> counted]
        ELSE IF b.error # Nil
        THEN [rset |-> FALSE, e |-> b.e, error |-> b.error, rc |-> NoStatus,
              calls |-> b.calls]
        ELSE ExecuteStep(b.e, b.calls, o)

\* Connection.ExecuteClassic(statement, parameters...).  isStatement: the
\* db.Statement handed in is a *Statement of this driver.  o: what the
\* engine does with the first step.  rset: a result set is returned.
ConnectionExecuteClassic(e, isStatement, params, bindFail, o) ==
    LET counted == <<Call("sqlite3_bind_parameter_count", 0, "")>>
        b == ExecuteBindLoop(e, params, 1, bindFail, counted)
    IN  IF ~isStatement
        THEN [rset |-> FALSE, e |-> e, error |-> DriverError, rc |-> NoStatus,
              calls |-> <<>>]
        ELSE IF Len(params) # SqlBindParameterCount(e)
        THEN [rset |-> FALSE, e |-> e, error |-> DriverError, rc |-> NoStatus,
              calls |-> counted]
        ELSE IF b.error # Nil
        THEN [rset |-> FALSE, e |-> b.e, error |-> b.error, rc |-> NoStatus,
              calls |-> b.calls]
        ELSE ExecuteStep(b.e, b.calls, o)

(* ------------------------ Cursor / ClassicResultSet ------------------- *)
\* ClassicResultSet.Fetch: hand out the current row, then step to find out
\* whether another one follows; data and error travel in one Result.  more
\* is ClassicResultSet.more; o: what the engine does with the step.
ClassicResultSetFetch(more, e, o) ==
    LET nColumns == SqlColumnCount(e)
        data == [i \in 1..nColumns |-> SqlColumnText(e, i - 1)]
        read == <<Call("sqlite3_column_count", 0, "")>>
                \o [i \in 1..nColumns |-> Call("wsq_column_text", i - 1, "")]
        s == SqlStep(e, o)
        stepped == Append(read, Call("sqlite3_step", 0, s.rc))
        failed == s.rc # StatusDone /\ s.rc # StatusRow
        error == IF failed THEN ConnectionError.error ELSE Nil
        seen == IF failed THEN stepped \o ConnectionError.calls ELSE stepped
        cl == StatementClear(s.e)
    IN  IF ~more
        THEN [more |-> more, e |-> e, data |-> NoData, error |-> DriverError,
              rc |-> NoStatus, calls |-> <<>>]
        ELSE IF nColumns <= 0
        THEN [more |-> more, e |-> e, data |-> NoData, error |-> DriverError,
              rc |-> NoStatus, calls |-> <<Call("sqlite3_column_count", 0, "")>>]
        ELSE IF s.rc = StatusDone
        THEN [more |-> FALSE, e |-> cl.e, data |-> data, error |-> error,
              rc |-> s.rc, calls |-> seen \o cl.calls]
        ELSE [more |-> more, e |-> s.e, data |-> data, error |-> error,
              rc |-> s.rc, calls |-> seen]

\* FetchOne as it would be without the test of Cursor.result
FetchOneUnguarded(more, e, o) ==
    LET r == ClassicResultSetFetch(TRUE, e, o)
    IN  [r EXCEPT !.more = more /\ r.more]

\* FetchOne as it would be if it stepped first and read the columns after
FetchOneStepsFirst(more, e, o) ==
    LET r == ClassicResultSetFetch(more, e, o)
        s == SqlStep(e, o)
    IN  IF r.rc = NoStatus
        THEN r
        ELSE [r EXCEPT !.data = [i \in 1..SqlColumnCount(e) |->
                                    SqlColumnText(s.e, i - 1)]]

\* FetchOne as it is in the earlier variant of the driver: Cursor.result
\* stays true when the step reports SQLITE_DONE
FetchOneKeepsResult(more, e, o) ==
    LET r == ClassicResultSetFetch(more, e, o)
    IN  [r EXCEPT !.more = more]

\* Cursor.FetchOne: the same protocol, data and error returned side by
\* side.  more is Cursor.result.
CursorFetchOne(more, e, o) ==
    LET nColumns == SqlColumnCount(e)
        data == [i \in 1..nColumns |-> SqlColumnText(e, i - 1)]
        read == <<Call("sqlite3_column_count", 0, "")>>
                \o [i \in 1..nColumns |-> Call("wsq_column_text", i - 1, "")]
        s == SqlStep(e, o)
        stepped == Append(read, Call("sqlite3_step", 0, s.rc))
        failed == s.rc # StatusDone /\ s.rc # StatusRow
        error == IF failed THEN ConnectionError.error ELSE Nil
        seen == IF failed THEN stepped \o ConnectionError.calls ELSE stepped
        cl == StatementClear(s.e)
    IN  IF ~more
        THEN [more |-> more, e |-> e, data |-> NoData, error |-> DriverError,
              rc |-> NoStatus, calls |-> <<>>]
        ELSE IF nColumns <= 0
        THEN [more |-> more, e |-> e, data |-> NoData, error |-> DriverError,
              rc |-> NoStatus, calls |-> <<Call("sqlite3_column_count", 0, "")>>]
        ELSE IF s.rc = StatusDone
        THEN [more |-> FALSE, e |-> cl.e, data |-> data, error |-> error,
              rc |-> s.rc, calls |-> seen \o cl.calls]
        ELSE [more |-> more, e |-> s.e, data |-> data, error |-> error,
              rc |-> s.rc, calls |-> seen]

\* Cursor.FetchRow: FetchOne with the values keyed by column name
CursorFetchRow(more, e, o) ==
    LET nColumns == SqlColumnCount(e)
        names == {SqlColumnName(e, i) : i \in 0..(nColumns - 1)}
        data == [n \in names |-> SqlColumnText(e, n[2])]
        cols == [j \in 1..(2 * nColumns) |->
                    IF j % 2 = 1 THEN Call("wsq_column_text", (j - 1) \div 2, "")
                    ELSE Call("wsq_column_name", (j - 1) \div 2, "")]
        read == <<Call("sqlite3_column_count", 0, "")>> \o cols
        s == SqlStep(e, o)
        stepped == Append(read, Call("sqlite3_step", 0, s.rc))
        failed == s.rc # StatusDone /\ s.rc # StatusRow
        error == IF failed THEN ConnectionError.error ELSE Nil
        seen == IF failed THEN stepped \o ConnectionError.calls ELSE stepped
        cl == StatementClear(s.e)
    IN  IF ~more
        THEN [more |-> more, e |-> e, data |-> NoData, error |-> DriverError,
              rc |-> NoStatus, calls |-> <<>>]
        ELSE IF nColumns <= 0
        THEN [more |-> more, e |-> e, data |-> NoData, error |-> DriverError,
              rc |-> NoStatus, calls |-> <<Call("sqlite3_column_count", 0, "")>>]
        ELSE IF s.rc = StatusDone
        THEN [more |-> FALSE, e |-> cl.e, data |-> data, error |-> error,
              rc |-> s.rc, calls |-> seen \o cl.calls]
        ELSE [more |-> more, e |-> s.e, data |-> data, error |-> error,
              rc |-> s.rc, calls |-> seen]

\* what the engine does with the lookahead step of each round of a loop:
\* it fails the errAt-th one (0: none)
StepOutcomes(errAt, n) == [i \in 1..n |-> IF i = errAt THEN "fail" ELSE "go"]

\* Cursor.FetchMany, the loop: FetchOne until count rows are in d or one
\* FetchOne reports an error; err is the last error (e in the code).
RECURSIVE FetchManyLoop(_, _, _, _, _, _)
FetchManyLoop(more, e, count, os, d, calls) ==
    IF Len(d) < count
    THEN LET r == CursorFetchOne(more, e, Head(os))
         IN  IF r.error = Nil
             THEN FetchManyLoop(r.more, r.e, count, Tail(os), Append(d, r.data),
                                calls \o r.calls)
             ELSE [more |-> r.more, e |-> r.e, d |-> d, err |-> r.error,
                   rc |-> r.rc, calls |-> calls \o r.calls]
    ELSE [more |-> more, e |-> e, d |-> d, err |-> Nil, rc |-> NoStatus,
          calls |-> calls]

\* FetchMany as it would be if fewer rows than count were a failure
FetchManyStrict(more, e, count, os) ==
    LET r == FetchManyLoop(more, e, count, os, <<>>, <<>>)
        l == Len(r.d)
    IN  [more |-> r.more, e |-> r.e,
         data |-> IF l > 0 THEN r.d ELSE NoData,
         error |-> r.err,
         rc |-> r.rc, calls |-> r.calls]

\* FetchMany as it would be if it never handed the error on
FetchManySilent(more, e, count, os) ==
    LET r == FetchManyLoop(more, e, count, os, <<>>, <<>>)
        l == Len(r.d)
    IN  [more |-> r.more, e |-> r.e,
         data |-> IF l > 0 THEN r.d ELSE NoData,
         error |-> Nil,
         rc |-> r.rc, calls |-> r.calls]

\* Cursor.FetchMany(count): the rows obtained, or the error if there are none
CursorFetchMany(more, e, count, os) ==
    LET r == FetchManyLoop(more, e, count, os, <<>>, <<>>)
        l == Len(r.d)
    IN  [more |-> r.more, e |-> r.e,
         data |-> IF l > 0 THEN r.d ELSE NoData,
         error |-> IF l > 0 THEN Nil ELSE r.err,
         rc |-> r.rc, calls |-> r.calls]

\* Cursor.FetchAll, the loop: FetchOne until it reports an error.  done is
\* FALSE when the loop is still running after MaxLoop rounds.
RECURSIVE FetchAllLoop(_, _, _, _, _, _)
FetchAllLoop(more, e, os, v, calls, round) ==
    IF round > MaxLoop
    THEN [more |-> more, e |-> e, v |-> v, err |-> Nil, rc |-> NoStatus,
          calls |-> calls, done |-> FALSE]
    ELSE LET r == CursorFetchOne(more, e, Head(os))
         IN  IF r.error # Nil
             THEN [more |-> r.more, e |-> r.e, v |-> v, err |-> r.error,
                   rc |-> r.rc, calls |-> calls \o r.calls, done |-> TRUE]
             ELSE FetchAllLoop(r.more, r.e, Tail(os), Append(v, r.data),
                               calls \o r.calls, round + 1)

\* Cursor.FetchAll(): every row obtained, or the error if there are none
CursorFetchAll(more, e, os) ==
    LET r == FetchAllLoop(more, e, os, <<>>, <<>>, 1)
        l == Len(r.v)
    IN  [more |-> r.more, e |-> r.e,
         data |-> IF l > 0 THEN r.v ELSE NoData,
         error |-> IF l > 0 THEN Nil ELSE r.err,
         rc |-> r.rc, calls |-> r.calls, done |-> r.done]

\* the engine's verdicts on a query text: "ok"; "fail" (an error, no handle);
\* "failHandle" (an error and a handle all the same); "failHandleFinal" (the
\* same, and finalizing that handle fails too)
PrepareOutcomes == {"ok", "fail", "failHandle", "failHandleFinal"}

\* the statement Prepare returns for a query the engine compiled
Compiled(q) ==
    [handle |-> "live", k |-> q.k, nrows |-> q.nrows, ncols |-> q.ncols,
     vm |-> "ready", pos |-> 0, bind |-> [i \in 1..q.k |-> Unbound],
     resetSince |-> TRUE, clearSince |-> TRUE]

\* Prepare as it would be if a failed finalize replaced the error
ConnectionPrepareSecondary(q, out) ==
    LET compiled == Call("sqlite3_prepare_v2", 0,
                         IF out = "ok" THEN StatusOk ELSE StatusError)
        finalized == Call("sqlite3_finalize", 0,
                          IF out = "failHandleFinal" THEN StatusError
                          ELSE StatusOk)
        read == <<compiled>> \o ConnectionError.calls
    IN  IF out = "ok"
        THEN [statement |-> Compiled(q), error |-> Nil, errorAt |-> 0,
              handle |-> TRUE, calls |-> <<compiled>>]
        ELSE IF out = "fail"
        THEN [statement |-> NoStatement, error |-> ConnectionError.error,
              errorAt |-> 2, handle |-> FALSE, calls |-> read]
        ELSE IF out = "failHandle"
        THEN [statement |-> NoStatement, error |-> ConnectionError.error,
              errorAt |-> 2, handle |-> TRUE,
              calls |-> Append(read, finalized)]
        ELSE [statement |-> NoStatement, error |-> ConnectionError.error,
              errorAt |-> 5, handle |-> TRUE,
              calls |-> Append(read, finalized) \o ConnectionError.calls]

\* Connection.Prepare(query): q is what the SQL text compiles to, out the
\* engine's verdict.  handle tells whether the engine left a handle in
\* s.handle, errorAt where in the log the error returned was read (0: none).
ConnectionPrepare(q, out) ==
    LET compiled == Call("sqlite3_prepare_v2", 0,
                         IF out = "ok" THEN StatusOk ELSE StatusError)
        finalized == Call("sqlite3_finalize", 0,
                          IF out = "failHandleFinal" THEN StatusError
                          ELSE StatusOk)
        read == <<compiled>> \o ConnectionError.calls
    IN  IF out = "ok"
        THEN [statement |-> Compiled(q), error |-> Nil, errorAt |-> 0,
              handle |-> TRUE, calls |-> <<compiled>>]
        ELSE IF out = "fail"
        THEN [statement |-> NoStatement, error |-> ConnectionError.error,
              errorAt |-> 2, handle |-> FALSE, calls |-> read]
        ELSE [statement |-> NoStatement, error |-> ConnectionError.error,
              errorAt |-> 2, handle |-> TRUE,
              calls |-> Append(read, finalized)]

(* --------------------------- parseConnInfo, open ---------------------- *)
\* A connection string is a sequence of characters.
DriverName == <<"s", "q", "l", "i", "t", "e", "3">>

LetterChars == {"a", "b", "d", "e", "f", "g", "i", "l", "p", "q", "s", "t", "u", "v", "x"}
DigitChars == <<"0", "1", "2", "3", "4", "5", "6", "7", "8", "9">>

IsDigit(c) == \E i \in 1..10 : DigitChars[i] = c
DigitValue(c) == (CHOOSE i \in 1..10 : DigitChars[i] = c) - 1

\* the first place of character c in s, 0 if there is none
IndexOf(s, c) ==
    IF \E i \in 1..Len(s) : s[i] = c
    THEN CHOOSE i \in 1..Len(s) : s[i] = c /\ \A j \in 1..(i - 1) : s[j] # c
    ELSE 0

\* s cut at the first sep (strings.Split(s, sep, 0))
RECURSIVE Split(_, _)
Split(s, sep) ==
    IF IndexOf(s, sep) = 0
    THEN <<s>>
    ELSE <<SubSeq(s, 1, IndexOf(s, sep) - 1)>>
         \o Split(SubSeq(s, IndexOf(s, sep) + 1, Len(s)), sep)

\* http.ParseURL, the parts parseConnInfo reads: scheme ":" then "//"
\* authority, then the path up to "?", then the query.  ok is FALSE for the
\* strings ParseURL refuses (the empty one, one that starts with ":").
GetScheme(raw) ==
    LET stops == {i \in 1..Len(raw) :
                     ~(raw[i] \in LetterChars \/ (i > 1 /\ IsDigit(raw[i])))}
        stop == CHOOSE i \in stops : \A j \in stops : i <= j
    IN  IF stops = {} \/ raw[stop] # ":"
        THEN [ok |-> TRUE, scheme |-> <<>>, rest |-> raw]
        ELSE IF stop = 1
        THEN [ok |-> FALSE, scheme |-> <<>>, rest |-> raw]
        ELSE [ok |-> TRUE, scheme |-> SubSeq(raw, 1, stop - 1),
              rest |-> SubSeq(raw, stop + 1, Len(raw))]

ParseURL(raw) ==
    LET g == GetScheme(raw)
        q == IndexOf(g.rest, "?")
        hier == IF q = 0 THEN g.rest ELSE SubSeq(g.rest, 1, q - 1)
        query == IF q = 0 THEN <<>> ELSE SubSeq(g.rest, q + 1, Len(g.rest))
        net == Len(hier) > 2 /\ SubSeq(hier, 1, 2) = <<"/", "/">>
        after == SubSeq(hier, 3, Len(hier))
        slash == IndexOf(after, "/")
        path == IF ~net THEN hier
                ELSE IF slash = 0 THEN <<>>
                ELSE SubSeq(after, slash, Len(after))
    IN  IF raw = <<>> \/ ~g.ok
        THEN [ok |-> FALSE, Scheme |-> <<>>, Path |-> <<>>, RawQuery |-> <<>>]
        ELSE [ok |-> TRUE, Scheme |-> g.scheme, Path |-> path, RawQuery |-> query]

\* db.ParseQueryURL: "k=v&k=v" as a map; has(k) and value(k) below read it
ParseQueryURL(query) == Split(query, "&")

HasOption(options, key) ==
    \E i \in 1..Len(options) : Split(options[i], "=")[1] = key

Option(options, key) ==
    LET i == CHOOSE j \in 1..Len(options) : Split(options[j], "=")[1] = key
        kv == Split(options[i], "=")
    IN  IF Len(kv) > 1 THEN kv[2] ELSE <<>>

\* strconv.Atoi: an optional "-" and decimal digits; ok is FALSE for
\* anything else
RECURSIVE Atoui(_, _)
Atoui(s, acc) ==
    IF s = <<>> THEN acc ELSE Atoui(Tail(s), 10 * acc + DigitValue(Head(s)))

Atoi(s) ==
    LET neg == s # <<>> /\ Head(s) = "-"
        digits == IF neg THEN Tail(s) ELSE s
    IN  IF digits = <<>> \/ \E i \in 1..Len(digits) : ~IsDigit(digits[i])
        THEN [ok |-> FALSE, n |-> 0]
        ELSE [ok |-> TRUE,
              n |-> IF neg THEN 0 - Atoui(digits, 0) ELSE Atoui(digits, 0)]

FlagsKey == <<"f", "l", "a", "g", "s">>
VfsKey == <<"v", "f", "s">>
\* a *string that is nil
NoVfs == <<"nil">>

\* os.Error values of the parsers
ParseError == "ParseError"

\* parseConnInfo(str): name, flags and vfs of a connection string, or the
\* error that refuses it
ParseConnInfoFlags(url) ==
    IF url.RawQuery # <<>> /\ HasOption(ParseQueryURL(url.RawQuery), FlagsKey)
    THEN Atoi(Option(ParseQueryURL(url.RawQuery), FlagsKey))
    ELSE [ok |-> TRUE, n |-> 0]

ParseConnInfoVfs(url) ==
    IF url.RawQuery # <<>> /\ HasOption(ParseQueryURL(url.RawQuery), VfsKey)
    THEN Option(ParseQueryURL(url.RawQuery), VfsKey)
    ELSE NoVfs

\* parseConnInfo as it would be without the test of the scheme
ParseConnInfoAnyScheme(url) ==
    IF ~url.ok
    THEN [name |-> <<>>, flags |-> 0, vfs |-> NoVfs, error |-> ParseError]
    ELSE IF Len(url.Path) = 0
    THEN [name |-> <<>>, flags |-> 0, vfs |-> NoVfs, error |-> DriverError]
    ELSE IF ~ParseConnInfoFlags(url).ok
    THEN [name |-> url.Path, flags |-> 0, vfs |-> NoVfs, error |-> ParseError]
    ELSE [name |-> url.Path, flags |-> ParseConnInfoFlags(url).n,
          vfs |-> ParseConnInfoVfs(url), error |-> Nil]

ParseConnInfoOf(url) ==
    IF ~url.ok
    THEN [name |-> <<>>, flags |-> 0, vfs |-> NoVfs, error |-> ParseError]
    ELSE IF Len(url.Scheme) > 0 /\ url.Scheme # DriverName
    THEN [name |-> <<>>, flags |-> 0, vfs |-> NoVfs, error |-> DriverError]
    ELSE IF Len(url.Path) = 0
    THEN [name |-> <<>>, flags |-> 0, vfs |-> NoVfs, error |-> DriverError]
    ELSE IF ~ParseConnInfoFlags(url).ok
    THEN [name |-> url.Path, flags |-> 0, vfs |-> NoVfs, error |-> ParseError]
    ELSE [name |-> url.Path, flags |-> ParseConnInfoFlags(url).n,
          vfs |-> ParseConnInfoVfs(url), error |-> Nil]

parseConnInfo(str) == ParseConnInfoOf(ParseURL(str))

\* flags of sqlite3_open_v2
OpenNoMutex == 32768
OpenFullMutex == 65536
\* after running into a locked database, retry for this long
defaultTimeoutMilliseconds == 16000
\* the flags of sqlite3_open_v2 lie in the low 24 bits
FlagRange == 16777216

\* the low 24 bits of C.int(flags), two's complement
CInt(n) == n % FlagRange
\* is bit b (a power of two) of the word set
Bit(word, b) == (word \div b) % 2
\* word &^ b and word | b for a single bit b
AndNot(word, b) == word - Bit(word, b) * b
Or(word, b) == word + (1 - Bit(word, b)) * b

\* Connection.handle: nil before sqlite3_open_v2 hands out a session;
\* timeout and extended are the session's busy timeout and whether it
\* reports extended result codes
NoSession == [handle |-> "nil", timeout |-> 0, extended |-> FALSE]

\* sqlite3_open_v2: a session; on failure an error and, unless the engine
\* could not even allocate it, a session all the same
OpenOutcomes == {"ok", "fail", "failNoHandle"}

SqlOpen(name, flags, vfs, o) ==
    [session |-> IF o = "failNoHandle" THEN NoSession
                 ELSE [NoSession EXCEPT !.handle = "open"],
     rc |-> IF o = "ok" THEN StatusOk ELSE StatusError]

SqlBusyTimeout(session, ms, o) ==
    IF o = "fail"
    THEN [session |-> session, rc |-> StatusError]
    ELSE [session |-> [session EXCEPT !.timeout = ms], rc |-> StatusOk]

SqlExtendedResultCodes(session, onoff, o) ==
    IF o = "fail"
    THEN [session |-> session, rc |-> StatusError]
    ELSE [session |-> [session EXCEPT !.extended = onoff], rc |-> StatusOk]

\* sqlite3_close: the session is gone unless the engine refuses
SqlClose(session, o) ==
    IF o = "fail"
    THEN [session |-> session, rc |-> StatusError]
    ELSE [session |-> [session EXCEPT !.handle = "closed"], rc |-> StatusOk]

\* Connection.Close
ConnectionClose(session, o) ==
    LET c == SqlClose(session, o)
    IN  [session |-> c.session,
         error |-> IF c.rc # StatusOk THEN ConnectionError.error ELSE Nil,
         calls |-> <<Call("sqlite3_close", 0, c.rc)>>
                   \o IF c.rc # StatusOk THEN ConnectionError.calls ELSE <<>>]

\* open's failure exit as it would be if an error of the close took the
\* place of the error read before it
OpenFailedSecondary(session, calls, closeOut) ==
    LET cl == ConnectionClose(session, closeOut)
        closed == calls \o ConnectionError.calls \o cl.calls
    IN  IF session.handle # "nil"
        THEN [connection |-> FALSE, session |-> cl.session,
              error |-> ConnectionError.error,
              errorAt |-> IF cl.error # Nil THEN Len(closed) - 1
                          ELSE Len(calls) + 1,
              calls |-> closed]
        ELSE [connection |-> FALSE, session |-> session,
              error |-> ConnectionError.error, errorAt |-> Len(calls) + 1,
              calls |-> calls \o ConnectionError.calls]

\* open, one of its three failure exits: read the error, close the session
\* if there is one, return the error and no Connection.  errorAt is the
\* place in the log of the sqlite3_errcode call that read the error returned
\* (0: the error is not the engine's).
OpenFailed(session, calls, closeOut) ==
    LET cl == ConnectionClose(session, closeOut)
    IN  IF session.handle # "nil"
        THEN [connection |-> FALSE, session |-> cl.session,
              error |-> ConnectionError.error, errorAt |-> Len(calls) + 1,
              calls |-> calls \o ConnectionError.calls \o cl.calls]
        ELSE [connection |-> FALSE, session |-> session,
              error |-> ConnectionError.error, errorAt |-> Len(calls) + 1,
              calls |-> calls \o ConnectionError.calls]

\* open's configuration as it is in the earlier variant of the driver: the
\* busy timeout only
OpenConfigureTimeoutOnly(session, calls, out) ==
    LET b == SqlBusyTimeout(session, defaultTimeoutMilliseconds, out.busy)
        timed == Append(calls, Call("sqlite3_busy_timeout",
                                    defaultTimeoutMilliseconds, b.rc))
    IN  IF b.rc # StatusOk
        THEN OpenFailed(b.session, timed, out.close)
        ELSE [connection |-> TRUE, session |-> b.session, error |-> Nil,
              errorAt |-> 0, calls |-> timed]

\* open, after the engine opened the session: busy timeout, then extended
\* result codes
OpenConfigure(session, calls, out) ==
    LET b == SqlBusyTimeout(session, defaultTimeoutMilliseconds, out.busy)
        timed == Append(calls, Call("sqlite3_busy_timeout",
                                    defaultTimeoutMilliseconds, b.rc))
        x == SqlExtendedResultCodes(b.session, TRUE, out.extended)
        extended == Append(timed, Call("sqlite3_extended_result_codes", 1, x.rc))
    IN  IF b.rc # StatusOk
        THEN OpenFailed(b.session, timed, out.close)
        ELSE IF x.rc # StatusOk
        THEN OpenFailed(x.session, extended, out.close)
        ELSE [connection |-> TRUE, session |-> x.session, error |-> Nil,
              errorAt |-> 0, calls |-> extended]

\* open as it would be if it handed the caller's flags on untouched, as the
\* earlier variant of the driver does
OpenEngineKeepsFlags(p, out) ==
    LET flags == CInt(p.flags)
        o == SqlOpen(p.name, flags, p.vfs, out.open)
        opened == <<Call("sqlite3_open_v2",
                         [name |-> p.name, flags |-> flags, vfs |-> p.vfs], o.rc)>>
    IN  IF o.rc # StatusOk
        THEN OpenFailed(o.session, opened, out.close)
        ELSE OpenConfigure(o.session, opened, out)

\* open, from the flags on: force serialized mode, open the session,
\* configure it.  p is what parseConnInfo returned.
OpenEngine(p, out) ==
    LET flags == Or(AndNot(CInt(p.flags), OpenNoMutex), OpenFullMutex)
        o == SqlOpen(p.name, flags, p.vfs, out.open)
        opened == <<Call("sqlite3_open_v2",
                         [name |-> p.name, flags |-> flags, vfs |-> p.vfs], o.rc)>>
    IN  IF o.rc # StatusOk
        THEN OpenFailed(o.session, opened, out.close)
        ELSE OpenConfigure(o.session, opened, out)

\* open(url).  out: what the engine does with each of the calls.
OpenParsed(p, out) ==
    IF p.error # Nil
    THEN [connection |-> FALSE, session |-> NoSession, error |-> p.error,
          errorAt |-> 0, calls |-> <<>>]
    ELSE OpenEngine(p, out)

open(url, out) == OpenParsed(parseConnInfo(url), out)

(* ------------------------------- state -------------------------------- *)
\* stmt     the Statement the caller prepared (NoStatement before that)
\* cursors  the Cursors and ClassicResultSets Execute returned, oldest first:
\*            kind   "Cursor" or "ResultSet"
\*            more   Cursor.result / ClassicResultSet.more
\*            got    rows its fetches handed out without an error
\*            alone  nothing but this cursor has driven the Statement since
\*                   the Execute that made it
\*            clean  alone, made at the start of an evaluation, and no
\*                   engine call of its fetches has failed
\* ret      the call that returned last: its name, its arguments, what the
\*          engine and the cursor were like before it, and what it returned
\* conn     the engine session behind the Connection
\* channel  the channel of the channel-based Execute and the task feeding it
\* process  the program: loading the package, running, or dead of a panic
VARIABLES stmt, cursors, ret, conn, channel, process

vars == <<stmt, cursors, ret, conn, channel, process>>

\* The program before the package is initialized.  configs counts the calls
\* of sqlite3_config, opens those of sqlite3_open_v2; serialized tells
\* whether the engine has accepted the serialized threading mode.
Loading == [pc |-> "load", configs |-> 0, opens |-> 0, serialized |-> FALSE]

\* the program with the package initialized and one Connection opened
Running == [pc |-> "run", configs |-> 1, opens |-> 1, serialized |-> TRUE]

\* The session of a Connection open returned.  A session open left behind
\* when its clean-up close failed is never fully configured, and the program
\* has no Connection for it.
OpenSession ==
    [handle |-> "open", timeout |-> defaultTimeoutMilliseconds, extended |-> TRUE]

\* no channel made yet.  pc is where the task running iterate stands; slot
\* holds the Result a send is offering; closes counts close(channel);
\* produced and received are the Results Fetch returned and the consumer
\* got, oldest first; rset is the result set iterate was given (0: nil);
\* restart tells the engine build apart (see StepChoices); faults counts the
\* steps that failed of their own accord; returned tells whether the last
\* Execute returned the channel (FALSE: it returned nil); ahead is the number
\* of sqlite3_step calls made for the execution less the number of Results
\* the consumer has received.
NoChannel ==
    [pc |-> "none", rset |-> 0, slot |-> <<>>, closes |-> 0, produced |-> <<>>,
     received |-> <<>>, restart |-> FALSE, faults |-> 0, returned |-> FALSE,
     ahead |-> 0]

NoReturn ==
    [op |-> "none", cur |-> 0, pre |-> FALSE, n |-> 0, m |-> 0, rc |-> NoStatus,
     error |-> Nil, data |-> NoData, calls |-> <<>>, rset |-> FALSE,
     done |-> TRUE]

\* rows of the running evaluation not handed out yet, the current one included
Remaining(e) == IF e.vm = "row" THEN e.nrows - e.pos + 1 ELSE 0

EngineFailed(calls) == "sqlite3_errcode" \in CallNames(calls)

\* a cursor's bookkeeping once it is known whether it is still alone and
\* clean: got counts only for a clean cursor
Track(cur, alone, clean, rows) ==
    [cur EXCEPT !.alone = alone, !.clean = clean,
                !.got = IF clean THEN @ + rows ELSE 0]

\* the caller's cursors after cursor c made a call that returned r and handed
\* out rows rows
AfterFetch(c, r, rows) ==
    [i \in 1..Len(cursors) |->
        IF i = c
        THEN Track([cursors[i] EXCEPT !.more = r.more], cursors[i].alone,
                   cursors[i].clean /\ ~EngineFailed(r.calls), rows)
        ELSE Track(cursors[i], cursors[i].alone /\ r.e = stmt,
                   cursors[i].clean /\ r.e = stmt, 0)]

Init ==
    /\ stmt = NoStatement
    /\ cursors = <<>>
    /\ ret = NoReturn
    /\ conn = OpenSession
    /\ channel = NoChannel
    /\ process = Running

Prepare ==
    /\ process.pc = "run"
    /\ conn = OpenSession
    /\ stmt.handle = "nil"
    /\ \E q \in Queries, out \in PrepareOutcomes :
        LET r == ConnectionPrepare(q, out)
        IN  /\ stmt' = r.statement
            /\ ret' = [NoReturn EXCEPT !.op = "Prepare", !.error = r.error,
                                       !.pre = r.handle, !.n = r.errorAt,
                                       !.calls = r.calls]
    /\ UNCHANGED <<cursors, conn, channel, process>>

\* The inputs of one Execute: is the statement one of this driver's, how
\* many parameters come with it, which bind the engine fails (0: none), what
\* the engine does with the first step.  An input the call never reads (the
\* parameters of a call that is refused, the step after a failed bind) is
\* given one value only.
ExecuteInputs ==
    {in \in [isStatement : BOOLEAN, n : 0..(stmt.k + 1),
             bindFail : 0..(stmt.k + 1), o : Outcomes] :
        /\ in.bindFail <= in.n
        /\ ~in.isStatement => in.n = 0
        /\ (~in.isStatement \/ in.n # stmt.k) => in.bindFail = 0 /\ in.o = "go"
        /\ in.bindFail # 0 => in.o = "go"}

\* Execute handing out a cursor of the given kind
ExecuteAs(kind, op) ==
    /\ stmt.handle = "live"
    /\ \E in \in ExecuteInputs :
        LET params == [i \in 1..in.n |-> ParamText(i)]
            r == ConnectionExecuteClassic(stmt, in.isStatement, params,
                                          in.bindFail, in.o)
            old == [i \in 1..Len(cursors) |->
                       Track(cursors[i], cursors[i].alone /\ r.e = stmt,
                             cursors[i].clean /\ r.e = stmt, 0)]
            new == [kind |-> kind, more |-> TRUE, got |-> 0, alone |-> TRUE,
                    clean |-> stmt.vm # "row"]
        IN  /\ r.rset => Len(cursors) < MaxCursors
            /\ stmt' = r.e
            /\ cursors' = IF r.rset THEN Append(old, new) ELSE old
            /\ ret' = [NoReturn EXCEPT
                          !.op = op,
                          !.cur = IF r.rset THEN Len(cursors) + 1 ELSE 0,
                          !.pre = in.isStatement, !.n = in.n,
                          !.m = Remaining(stmt), !.rc = r.rc,
                          !.error = r.error, !.data = params,
                          !.calls = r.calls, !.rset = r.rset]

\* Connection.ExecuteClassic: the cursor is a ClassicResultSet
ExecuteClassic ==
    /\ ExecuteAs("ResultSet", "Execute")
    /\ UNCHANGED <<conn, channel, process>>

\* Connection.Execute of the Cursor interface: the cursor is a Cursor
Execute ==
    /\ ExecuteAs("Cursor", "Execute")
    /\ UNCHANGED <<conn, channel, process>>

FetchOne ==
    \E c \in 1..Len(cursors), o \in Outcomes :
        \E r \in {CursorFetchOne(cursors[c].more, stmt, o)} :
            /\ cursors[c].kind = "Cursor"
            /\ stmt.handle = "live"
            /\ UNCHANGED <<conn, channel, process>>
            /\ stmt' = r.e
            /\ cursors' = AfterFetch(c, r, IF r.error = Nil THEN 1 ELSE 0)
            /\ ret' = [NoReturn EXCEPT
                          !.op = "FetchOne", !.cur = c, !.pre = cursors[c].more,
                          !.m = Remaining(stmt), !.rc = r.rc, !.error = r.error,
                          !.data = r.data, !.calls = r.calls]

FetchRow ==
    \E c \in 1..Len(cursors), o \in Outcomes :
        \E r \in {CursorFetchRow(cursors[c].more, stmt, o)} :
            /\ cursors[c].kind = "Cursor"
            /\ stmt.handle = "live"
            /\ UNCHANGED <<conn, channel, process>>
            /\ stmt' = r.e
            /\ cursors' = AfterFetch(c, r, IF r.error = Nil THEN 1 ELSE 0)
            /\ ret' = [NoReturn EXCEPT
                          !.op = "FetchRow", !.cur = c, !.pre = cursors[c].more,
                          !.m = Remaining(stmt), !.rc = r.rc, !.error = r.error,
                          !.data = r.data, !.calls = r.calls]

Fetch ==
    \E c \in 1..Len(cursors), o \in Outcomes :
        \E r \in {ClassicResultSetFetch(cursors[c].more, stmt, o)} :
            /\ cursors[c].kind = "ResultSet"
            /\ stmt.handle = "live"
            /\ UNCHANGED <<conn, channel, process>>
            /\ stmt' = r.e
            /\ cursors' = AfterFetch(c, r, IF r.error = Nil THEN 1 ELSE 0)
            /\ ret' = [NoReturn EXCEPT
                          !.op = "Fetch", !.cur = c, !.pre = cursors[c].more,
                          !.m = Remaining(stmt), !.rc = r.rc, !.error = r.error,
                          !.data = r.data, !.calls = r.calls]

\* the lookahead steps a loop of at most n rounds can get to make: an
\* evaluation is over after one step more than it has rows
Rounds(n) == IF n < stmt.nrows + 1 THEN n ELSE stmt.nrows + 1

FetchMany ==
    \E c \in 1..Len(cursors), count \in 0..MaxCount :
    \E errAt \in 0..Rounds(count) :
        \E r \in {CursorFetchMany(cursors[c].more, stmt, count,
                                 StepOutcomes(errAt, count))} :
            /\ cursors[c].kind = "Cursor"
            /\ stmt.handle = "live"
            /\ UNCHANGED <<conn, channel, process>>
            /\ stmt' = r.e
            /\ cursors' = AfterFetch(c, r, Len(r.data))
            /\ ret' = [NoReturn EXCEPT
                          !.op = "FetchMany", !.cur = c, !.pre = cursors[c].more,
                          !.n = count, !.m = Remaining(stmt), !.rc = r.rc,
                          !.error = r.error, !.data = r.data, !.calls = r.calls]

FetchAll ==
    \E c \in 1..Len(cursors), errAt \in 0..Rounds(MaxLoop) :
        \E r \in {CursorFetchAll(cursors[c].more, stmt,
                                StepOutcomes(errAt, MaxLoop + 1))} :
            /\ cursors[c].kind = "Cursor"
            /\ stmt.handle = "live"
            /\ UNCHANGED <<conn, channel, process>>
            /\ stmt' = r.e
            /\ cursors' = AfterFetch(c, r, Len(r.data))
            /\ ret' = [NoReturn EXCEPT
                          !.op = "FetchAll", !.cur = c, !.pre = cursors[c].more,
                          !.m = Remaining(stmt), !.rc = r.rc, !.error = r.error,
                          !.data = r.data, !.calls = r.calls, !.done = r.done]

\* Cursor.Close as it would be if it reset the Statement
CursorCloseResets(more, e) ==
    [more |-> more, e |-> StatementClear(e).e, error |-> StatementClear(e).error,
     calls |-> StatementClear(e).calls]

\* Cursor.Close(): nothing to do, the Statement stays around
CursorClose(more, e) == [more |-> more, e |-> e, error |-> Nil, calls |-> <<>>]

\* ClassicResultSet.Close()
ClassicResultSetClose(more, e) ==
    [more |-> more, e |-> e, error |-> Nil, calls |-> <<>>]

CloseCursor ==
    \E c \in 1..Len(cursors) :
        \E r \in {CursorClose(cursors[c].more, stmt)} :
            /\ cursors[c].kind = "Cursor"
            /\ stmt.handle = "live"
            /\ UNCHANGED <<conn, channel, process>>
            /\ stmt' = r.e
            /\ cursors' = AfterFetch(c, r, 0)
            /\ ret' = [NoReturn EXCEPT
                          !.op = "Close", !.cur = c, !.pre = cursors[c].more,
                          !.m = Remaining(stmt), !.error = r.error,
                          !.calls = r.calls]

CloseResultSet ==
    \E c \in 1..Len(cursors) :
        \E r \in {ClassicResultSetClose(cursors[c].more, stmt)} :
            /\ cursors[c].kind = "ResultSet"
            /\ stmt.handle = "live"
            /\ UNCHANGED <<conn, channel, process>>
            /\ stmt' = r.e
            /\ cursors' = AfterFetch(c, r, 0)
            /\ ret' = [NoReturn EXCEPT
                          !.op = "Close", !.cur = c, !.pre = cursors[c].more,
                          !.m = Remaining(stmt), !.error = r.error,
                          !.calls = r.calls]

Next ==
    \/ Prepare
    \/ ExecuteClassic
    \/ Execute
    \/ FetchOne
    \/ FetchRow
    \/ Fetch
    \/ FetchMany
    \/ FetchAll
    \/ CloseCursor
    \/ CloseResultSet

Spec == Init /\ [][Next]_vars

(* ----------------------- the channel-based Execute -------------------- *)
\* Execute as it would be if it started the task whatever ExecuteClassic
\* reported
ExecuteSpawnsAlways(error) == TRUE

\* Connection.Execute(statement, parameters...): ExecuteClassic, and unless
\* that reports an error a task running iterate(cur, ch) is started and the
\* channel returned.  error is what ExecuteClassic returned.
ConnectionExecuteSpawns(error) == error = Nil

\* a Result
Result(data, error) == [data |-> data, error |-> error]

\* iterate with the loop test turned around
IterateCloseEarly(isNil, more) ==
    IF isNil THEN "panic" ELSE IF more THEN "close" ELSE "fetch"

\* iterate, the head of its loop: rset.More() on the result set it was
\* given.  ExecuteClassic returns a nil result set when the first step found
\* no row; the call of More() through a nil interface is a run-time panic.
IterateMore(isNil, more) ==
    IF isNil THEN "panic" ELSE IF more THEN "fetch" ELSE "close"

\* a log that keeps its first MaxLog entries
Log(log, x) == IF Len(log) < MaxLog THEN Append(log, x) ELSE log

\* the send as it would be on a channel with room: the task goes on at once
IterateSendUnblocked(ch, result) ==
    [ch EXCEPT !.pc = "more", !.slot = <<result>>,
               !.produced = Log(@, result)]

\* channel <- rset.Fetch(), the first half: Fetch has returned result and
\* the send offers it
IterateSend(ch, result) ==
    [ch EXCEPT !.pc = "send", !.slot = <<result>>,
               !.produced = Log(@, result)]

\* the other half: the consumer takes the Result and the send returns
IterateSent(ch) ==
    [ch EXCEPT !.pc = "more", !.slot = <<>>,
               !.received = Log(@, ch.slot[1]), !.ahead = @ - 1]

\* rset.Close(); close(channel)
IterateClose(ch) == [ch EXCEPT !.pc = "exit", !.closes = @ + 1]

\* What the engine may do with a lookahead step of the task.  A statement
\* stepped again after a failed step, without a reset in between: the engine
\* refuses it (SQLITE_MISUSE) or, if built to do so, starts it over.
\* Otherwise the step goes through, or fails of its own accord.
StepChoices(ch, e) ==
    IF e.vm = "error"
    THEN IF ch.restart THEN {"go"} ELSE {"fail"}
    ELSE IF ch.faults < MaxFaults THEN {"go", "fail"} ELSE {"go"}

\* the channel-based Execute; the engine build is picked with the channel
ExecuteChannel ==
    /\ channel.pc \in {"none", "exit"}
    /\ ExecuteAs("ResultSet", "ExecuteChannel")
    /\ \E restart \in BOOLEAN :
        channel' = IF ConnectionExecuteSpawns(ret'.error)
                   THEN [NoChannel EXCEPT !.pc = "more", !.rset = ret'.cur,
                                          !.restart = restart,
                                          !.returned = ret'.error = Nil,
                                          !.ahead = Len(CallsOf(ret'.calls,
                                                         "sqlite3_step"))]
                   ELSE [channel EXCEPT !.returned = FALSE]
    /\ UNCHANGED <<conn, process>>

ProducerMore ==
    /\ channel.pc = "more"
    /\ channel' = [channel EXCEPT !.pc =
                      IF channel.rset = 0 THEN IterateMore(TRUE, FALSE)
                      ELSE IterateMore(FALSE, cursors[channel.rset].more)]
    /\ UNCHANGED <<stmt, cursors, ret, conn, process>>

ProducerFetch ==
    /\ channel.pc = "fetch"
    /\ \E o \in StepChoices(channel, stmt) :
       \E r \in {ClassicResultSetFetch(cursors[channel.rset].more, stmt, o)} :
            /\ stmt' = r.e
            /\ cursors' = AfterFetch(channel.rset, r,
                                     IF r.error = Nil THEN 1 ELSE 0)
            /\ ret' = [NoReturn EXCEPT
                          !.op = "Fetch", !.cur = channel.rset,
                          !.pre = cursors[channel.rset].more,
                          !.m = Remaining(stmt), !.rc = r.rc, !.error = r.error,
                          !.data = r.data, !.calls = r.calls]
            /\ channel' = [IterateSend(channel, Result(r.data, r.error))
                              EXCEPT !.faults = IF o = "fail" /\ stmt.vm # "error"
                                                THEN @ + 1 ELSE @,
                                     !.ahead = @ + Len(CallsOf(r.calls,
                                                               "sqlite3_step"))]
    /\ UNCHANGED <<conn, process>>

ConsumerReceive ==
    /\ channel.pc = "send"
    /\ channel' = IterateSent(channel)
    /\ UNCHANGED <<stmt, cursors, ret, conn, process>>

ProducerClose ==
    /\ channel.pc = "close"
    /\ channel' = IterateClose(channel)
    /\ UNCHANGED <<stmt, cursors, ret, conn, process>>

PrepareForChannel ==
    /\ channel.pc = "none"
    /\ Prepare

ChannelNext ==
    \/ PrepareForChannel
    \/ ExecuteChannel
    \/ ProducerMore
    \/ ProducerFetch
    \/ ConsumerReceive
    \/ ProducerClose

ChannelSpec == Init /\ [][ChannelNext]_vars

\* the task running iterate is scheduled as long as it can take a step, and
\* the consumer keeps receiving
ChannelFairness ==
    /\ WF_vars(ProducerMore)
    /\ WF_vars(ProducerFetch)
    /\ WF_vars(ProducerClose)
    /\ WF_vars(ConsumerReceive)

LiveChannelSpec == ChannelSpec /\ ChannelFairness

(* ----------------------------- Statement.Close ------------------------ *)
\* sqlite3_finalize: the compiled query is freed; the status is that of the
\* last evaluation
SqlFinalize(e) ==
    [e |-> [e EXCEPT !.handle = "finalized"],
     rc |-> IF e.vm = "error" THEN StatusError ELSE StatusOk]

\* Statement.Close().  Statement.handle keeps pointing at the freed query.
StatementClose(e) ==
    LET f == SqlFinalize(e)
    IN  [e |-> f.e,
         error |-> IF f.rc # StatusOk THEN ConnectionError.error ELSE Nil,
         calls |-> <<Call("sqlite3_finalize", 0, f.rc)>>
                   \o IF f.rc # StatusOk THEN ConnectionError.calls ELSE <<>>]

\* Statement.String(): the SQL text; there is no error to return
StatementString(e) ==
    [e |-> e, error |-> Nil, calls |-> <<Call("sqlite3_sql", 0, "")>>]

\* An engine call on a pointer to a freed query is undefined.  What a build
\* can make of it: "stale", the freed memory still reads as the query and
\* the call goes through; "refused", the engine notices and answers
\* SQLITE_MISUSE (a count reads as 0); "fault", the process dies.
Dangling == {"stale", "refused", "fault"}

\* the Statement once the process has died
Faulted(e) == [e EXCEPT !.handle = "fault"]

\* the freed query as a refusing engine shows it
Refused(e) == [e EXCEPT !.k = 0, !.ncols = 0, !.vm = "error"]

CloseStatement ==
    /\ stmt.handle = "live"
    /\ \E r \in {StatementClose(stmt)} :
        /\ stmt' = r.e
        /\ ret' = [NoReturn EXCEPT !.op = "StatementClose", !.error = r.error,
                                   !.calls = r.calls]
    /\ UNCHANGED <<cursors, conn, channel, process>>

\* Statement.String() on a Statement that is open or closed
String ==
    /\ stmt.handle \in {"live", "finalized"}
    /\ \E u \in Dangling :
        /\ stmt.handle = "live" => u = "stale"
        /\ \E r \in {StatementString(stmt)} :
            /\ stmt' = IF u = "fault" THEN Faulted(stmt) ELSE r.e
            /\ ret' = [NoReturn EXCEPT
                          !.op = "String", !.pre = stmt.handle = "finalized",
                          !.error = IF u = "fault" THEN "fault" ELSE r.error,
                          !.calls = r.calls]
    /\ UNCHANGED <<cursors, conn, channel, process>>

\* Statement.Close() on a Statement that is closed already
CloseStatementAgain ==
    /\ stmt.handle = "finalized"
    /\ \E u \in Dangling :
       \E r \in {StatementClose(IF u = "stale" THEN stmt ELSE Refused(stmt))} :
            /\ stmt' = IF u = "fault" THEN Faulted(stmt) ELSE stmt
            /\ ret' = [NoReturn EXCEPT
                          !.op = "StatementClose", !.pre = TRUE,
                          !.error = IF u = "fault" THEN "fault" ELSE r.error,
                          !.calls = r.calls]
    /\ UNCHANGED <<cursors, conn, channel, process>>

\* Execute on a Statement that is closed
ExecuteClosed ==
    /\ stmt.handle = "finalized"
    /\ \E u \in Dangling, n \in 0..MaxParams :
       \E r \in {ConnectionExecuteClassic(
                    IF u = "stale" THEN stmt ELSE Refused(stmt), TRUE,
                    [i \in 1..n |-> ParamText(i)], 0,
                    IF u = "stale" THEN "go" ELSE "fail")} :
            /\ r.rset => Len(cursors) < MaxCursors
            /\ stmt' = IF u = "fault" THEN Faulted(stmt)
                       ELSE IF u = "stale" THEN r.e ELSE stmt
            /\ cursors' = IF r.rset /\ u = "stale"
                          THEN Append(cursors,
                                      [kind |-> "ResultSet", more |-> TRUE,
                                       got |-> 0, alone |-> FALSE,
                                       clean |-> FALSE])
                          ELSE cursors
            /\ ret' = [NoReturn EXCEPT
                          !.op = "Execute", !.pre = TRUE, !.n = n, !.rc = r.rc,
                          !.error = IF u = "fault" THEN "fault" ELSE r.error,
                          !.calls = r.calls, !.rset = r.rset /\ u = "stale"]
    /\ UNCHANGED <<conn, channel, process>>

\* a fetch through a cursor the caller still holds, the Statement closed
FetchClosed ==
    /\ stmt.handle = "finalized"
    /\ \E c \in 1..Len(cursors), u \in Dangling :
       \E r \in {ClassicResultSetFetch(
                    cursors[c].more,
                    IF u = "stale" THEN stmt ELSE Refused(stmt),
                    IF u = "stale" THEN "go" ELSE "fail")} :
            /\ ~cursors[c].more => u = "stale"
            /\ stmt' = IF u = "fault" THEN Faulted(stmt)
                       ELSE IF u = "stale" THEN r.e ELSE stmt
            /\ cursors' = [cursors EXCEPT ![c].more = IF u = "stale" THEN r.more ELSE @,
                                          ![c].clean = FALSE, ![c].got = 0]
            /\ ret' = [NoReturn EXCEPT
                          !.op = "Fetch", !.cur = c, !.pre = TRUE, !.rc = r.rc,
                          !.error = IF u = "fault" THEN "fault" ELSE r.error,
                          !.data = r.data, !.calls = r.calls]
    /\ UNCHANGED <<conn, channel, process>>

LifecycleNext ==
    \/ Next
    \/ CloseStatement
    \/ String
    \/ CloseStatementAgain
    \/ ExecuteClosed
    \/ FetchClosed

LifecycleSpec == Init /\ [][LifecycleNext]_vars

(* -------------------------------- Open -------------------------------- *)
\* The connection strings Open is given, in parts: scheme, authority, path
\* and the options of the query.
SchemeParts == {<<>>, DriverName \o <<":">>, <<"p", "g", ":">>}
AuthorityParts == {<<>>, <<"/", "/", "h">>}
PathParts == {<<>>, <<"/", "d", "b">>}
\* texts of the flags option: 6, 32768 (no-mutex), 65536 (full-mutex), 32774,
\* 98310, -1, and three that are no integer
FlagTexts ==
    {<<"6">>, <<"3", "2", "7", "6", "8">>, <<"6", "5", "5", "3", "6">>,
     <<"3", "2", "7", "7", "4">>, <<"9", "8", "3", "1", "0">>, <<"-", "1">>,
     <<"x", "6">>, <<"6", "x">>, <<>>}
NoFlags == <<"n", "o", "n", "e">>
VfsTexts == {NoVfs, <<"u">>}

UrlParts ==
    [scheme : SchemeParts, authority : AuthorityParts, path : PathParts,
     flags : FlagTexts \cup {NoFlags}, vfs : VfsTexts]

\* the query of a connection string with the given options
UrlQuery(flags, vfs) ==
    LET f == IF flags = NoFlags THEN <<>> ELSE FlagsKey \o <<"=">> \o flags
        v == IF vfs = NoVfs THEN <<>> ELSE VfsKey \o <<"=">> \o vfs
    IN  IF f = <<>> /\ v = <<>> THEN <<>>
        ELSE IF v = <<>> THEN <<"?">> \o f
        ELSE IF f = <<>> THEN <<"?">> \o v
        ELSE <<"?">> \o f \o <<"&">> \o v

\* the connection string made of the parts
Url(parts) ==
    parts.scheme \o parts.authority \o parts.path
        \o UrlQuery(parts.flags, parts.vfs)

\* what the engine does with the calls of one open
OpenEngineOutcomes ==
    [open : OpenOutcomes, busy : Outcomes, extended : Outcomes, close : Outcomes]

\* argument of sqlite3_config for serialized mode
configSerialized == 3

\* init as it would be if it carried on after a failed sqlite3_config
InitCarriesOn(o) ==
    [pc |-> "run", serialized |-> o # "fail",
     calls |-> <<Call("sqlite3_config", configSerialized,
                      IF o = "fail" THEN StatusError ELSE StatusOk)>>]

\* init(): switch the engine to serialized mode, panic if that fails
PackageInit(o) ==
    [pc |-> IF o = "fail" THEN "panic" ELSE "run", serialized |-> o # "fail",
     calls |-> <<Call("sqlite3_config", configSerialized,
                      IF o = "fail" THEN StatusError ELSE StatusOk)>>]

OpenInit ==
    /\ stmt = NoStatement
    /\ cursors = <<>>
    /\ ret = NoReturn
    /\ conn = NoSession
    /\ channel = NoChannel
    /\ process = Loading

\* the run time calls init() once, before anything else of the program
InitPackage ==
    /\ process.pc = "load"
    /\ \E o \in Outcomes :
       \E r \in {PackageInit(o)} :
            /\ process' = [process EXCEPT !.pc = r.pc,
                                          !.serialized = r.serialized,
                                          !.configs = @ + Len(r.calls)]
            /\ ret' = [NoReturn EXCEPT
                          !.op = "init", !.calls = r.calls,
                          !.error = IF r.pc = "panic" THEN "panic" ELSE Nil]
    /\ UNCHANGED <<stmt, cursors, conn, channel>>

\* the program's call of Open
Open ==
    /\ process.pc = "run"
    /\ ret.op = "init"
    /\ \E parts \in UrlParts, out \in OpenEngineOutcomes :
       \E r \in {open(Url(parts), out)} :
            /\ conn' = r.session
            /\ ret' = [NoReturn EXCEPT
                          !.op = "Open", !.data = parts, !.error = r.error,
                          !.n = r.errorAt, !.calls = r.calls,
                          !.rset = r.connection]
            /\ process' = [process EXCEPT !.opens =
                              @ + Len(CallsOf(r.calls, "sqlite3_open_v2"))]
    /\ UNCHANGED <<stmt, cursors, channel>>

\* Connection.Close on the Connection open returned
CloseConnection ==
    /\ ret.op = "Open"
    /\ ret.rset
    /\ \E o \in Outcomes :
       \E r \in {ConnectionClose(conn, o)} :
            /\ conn' = r.session
            /\ ret' = [NoReturn EXCEPT !.op = "ConnectionClose",
                                       !.error = r.error, !.calls = r.calls]
    /\ UNCHANGED <<stmt, cursors, channel, process>>

OpenNext ==
    \/ InitPackage
    \/ Open
    \/ CloseConnection

OpenSpec == OpenInit /\ [][OpenNext]_vars

(* ------------------------ Execute, the bind loop ------------------------- *)

\* the most parameter slots a query of BindSpec has
MaxSlots == 3

\* queries with up to MaxSlots parameters
BindQueries ==
    {q \in [k : 0..MaxSlots, nrows : 0..MaxRows, ncols : 0..MaxCols] :
        q.nrows > 0 => q.ncols > 0}

\* a Statement has just been prepared on the Connection
BindInit ==
    /\ \E q \in BindQueries :
       \E r \in {ConnectionPrepare(q, "ok")} :
            /\ stmt = r.statement
            /\ ret = [NoReturn EXCEPT !.op = "Prepare", !.pre = r.handle,
                                      !.calls = r.calls]
    /\ cursors = <<>>
    /\ conn = OpenSession
    /\ channel = NoChannel
    /\ process = Running

\* the program executes the Statement, again and again
BindNext ==
    \/ ExecuteClassic
    \/ Execute

BindSpec == BindInit /\ [][BindNext]_vars

(* ------------------------- the program as a whole ------------------------ *)

\* The package is initialized, the program opens a Connection, and works
\* with a Statement prepared on it.
ProgramNext ==
    \/ InitPackage
    \/ Open
    \/ Next

ProgramSpec == OpenInit /\ [][ProgramNext]_vars

(* ------------------------ Connection.error, codes ------------------------ *)

\* The codes the engine's last-error slot can hold: a basic code in the low
\* byte, and above it the number of the extended code (SQLITE_IOERR_READ is
\* 10 + 1 * 256).
MaxBasic == 28
MaxExtension == 4
ErrorCodes == {b + 256 * x : b \in 1..MaxBasic, x \in 0..MaxExtension}

\* the message sqlite3_errmsg gives for the code in the slot
SqlErrmsg(code) == <<"message", code>>

\* word & 0xff, bit by bit
LowByte(word) ==
    Bit(word, 1) + 2 * Bit(word, 2) + 4 * Bit(word, 4) + 8 * Bit(word, 8)
    + 16 * Bit(word, 16) + 32 * Bit(word, 32) + 64 * Bit(word, 64)
    + 128 * Bit(word, 128)

\* error() as it would be if the basic code were not masked
SystemErrorUnmasked(code) ==
    [extended |-> code, basic |-> code, message |-> SqlErrmsg(code)]

\* The SystemError Connection.error fills in when the engine's slot holds code.
SystemErrorOf(code) ==
    [extended |-> code, basic |-> LowByte(code), message |-> SqlErrmsg(code)]

\* an engine call of the Connection has failed and left its code in the slot
ErrorInit ==
    /\ stmt = NoStatement
    /\ cursors = <<>>
    /\ conn = OpenSession
    /\ channel = NoChannel
    /\ process = Running
    /\ \E code \in ErrorCodes :
            ret = [NoReturn EXCEPT !.op = "failed", !.n = code]

\* the failure path's call of self.error()
ReadError ==
    /\ ret.op = "failed"
    /\ ret' = [ret EXCEPT !.op = "error", !.data = SystemErrorOf(ret.n),
                          !.error = SystemError,
                          !.calls = ConnectionError.calls]
    /\ UNCHANGED <<stmt, cursors, conn, channel, process>>

ErrorNext == ReadError

ErrorSpec == ErrorInit /\ [][ErrorNext]_vars

(* ------------------------------ claims -------------------------------- *)
Fetches == {"FetchOne", "FetchRow", "Fetch"}

Min(a, b) == IF a < b THEN a ELSE b

\* rows first, first + 1, ... of the statement's result, as the caller
\* gets them
RowsFrom(first, n) == [j \in 1..n |-> RowData(first + j - 1, stmt.ncols)]

\* C1: FetchOne (Fetch) on a cursor whose hasMore flag is false fails with a
\* DriverError, makes no engine call and leaves the cursor and the Statement
\* as they were.
C1_ExhaustedFetchFails ==
    [][(ret'.op \in {"FetchOne", "Fetch"} /\ ~ret'.pre)
        => /\ ret'.error = DriverError
           /\ ret'.data = NoData
           /\ ret'.calls = <<>>
           /\ cursors' = cursors
           /\ stmt' = stmt]_vars

\* an exhausted cursor was asked for a row while another cursor had the
\* Statement in the middle of an evaluation
C1_Witness ==
    /\ ret.op = "FetchOne"
    /\ ~ret.pre
    /\ ret.error = DriverError
    /\ stmt.vm = "row"

\* C2: a cursor made by Execute at the start of an evaluation of n >= 1 rows,
\* with no engine error and nobody else driving the Statement: FetchOne
\* succeeds as long as fewer than n rows are out and returns the rows in the
\* order 1..n; hasMore is true exactly while fewer than n rows are out, so it
\* turns false in the n-th call; FetchOne after that fails with a DriverError.
C2_RowsInOrder ==
    \A c \in 1..Len(cursors) :
        cursors[c].clean =>
            /\ cursors[c].got <= stmt.nrows
            /\ cursors[c].more <=> cursors[c].got < stmt.nrows
            /\ (ret.op = "FetchOne" /\ ret.cur = c) =>
                  IF ret.pre
                  THEN /\ ret.error = Nil
                       /\ ret.data = RowData(cursors[c].got, stmt.ncols)
                  ELSE /\ ret.error = DriverError
                       /\ ret.data = NoData
                       /\ cursors[c].got = stmt.nrows

\* the (n+1)-th FetchOne on a result of n = MaxRows rows
C2_Witness ==
    \E c \in 1..Len(cursors) :
        /\ cursors[c].clean
        /\ stmt.nrows = MaxRows
        /\ cursors[c].got = MaxRows
        /\ ret.op = "FetchOne"
        /\ ret.cur = c
        /\ ~ret.pre
        /\ ret.error = DriverError

\* C3 as claimed: whenever a cursor's hasMore flag is false, the Statement
\* has been reset and cleared of its bindings since the last step.
C3_ExhaustedMeansIdle ==
    \A c \in 1..Len(cursors) : ~cursors[c].more => Idle(stmt)

\* C3, amended: whenever a cursor's hasMore flag is false and nothing else (a
\* later Execute, a fetch through another cursor) has driven the Statement
\* since, the Statement has been reset and cleared of its bindings since the
\* last step.
C3_ExhaustedAloneMeansIdle ==
    \A c \in 1..Len(cursors) :
        (~cursors[c].more /\ cursors[c].alone) => Idle(stmt)

\* a fetch has just exhausted a cursor of a Statement with a parameter
C3_Witness ==
    \E c \in 1..Len(cursors) :
        /\ ~cursors[c].more
        /\ cursors[c].alone
        /\ ret.op \in Fetches
        /\ ret.cur = c
        /\ ret.rc = StatusDone
        /\ stmt.k > 0
        /\ Idle(stmt)

\* C4 as claimed: when the lookahead step of FetchOne, FetchRow or Fetch
\* returns neither ROW nor DONE, the caller gets the engine's error, the
\* Statement has been reset and the cursor's hasMore flag is false.
C4_StepErrorResets ==
    (ret.op \in Fetches /\ ret.rc = StatusError)
        => /\ ret.error = SystemError
           /\ stmt.vm = "ready"
           /\ stmt.resetSince
           /\ ~cursors[ret.cur].more

\* C5: Execute returns a cursor, with hasMore true, exactly when its first
\* step yields ROW; when the first step yields DONE it returns no cursor and
\* no error and the Statement has been reset and cleared.
C5_CursorIffRow ==
    ret.op = "Execute" =>
        /\ ret.rset <=> ret.rc = StatusRow
        /\ ret.rset => /\ ret.cur = Len(cursors)
                       /\ cursors[ret.cur].more
                       /\ ret.error = Nil
        /\ ~ret.rset => ret.cur = 0
        /\ ret.rc = StatusDone => /\ ~ret.rset
                                  /\ ret.error = Nil
                                  /\ Idle(stmt)

\* an Execute with a bound parameter whose first step said DONE
C5_Witness ==
    /\ ret.op = "Execute"
    /\ ret.rc = StatusDone
    /\ ret.n > 0
    /\ ~ret.rset
    /\ Idle(stmt)

\* C6 as claimed: when the first step of Execute returns neither ROW nor
\* DONE, Execute returns the engine's error and no cursor, and the Statement
\* has been reset and its bindings have been cleared.
C6_StepErrorClears ==
    (ret.op = "Execute" /\ ret.rc = StatusError)
        => /\ ret.error = SystemError
           /\ ~ret.rset
           /\ stmt.resetSince
           /\ stmt.clearSince
           /\ \A i \in 1..stmt.k : stmt.bind[i] = Unbound

\* C7: Execute on a Statement of k slots: with a parameter count other than
\* k it fails with a DriverError, calls neither bind nor step and leaves the
\* Statement as it was; with k parameters, and no bind refused by the engine,
\* it binds the i-th parameter to slot i for every i in 1..k.
C7_ParameterCount ==
    [][(ret'.op = "Execute" /\ ret'.pre)
        => IF ret'.n # stmt.k
           THEN /\ ret'.error = DriverError
                /\ ~ret'.rset
                /\ CallsOf(ret'.calls, "sqlite3_bind_text") = <<>>
                /\ CallsOf(ret'.calls, "sqlite3_step") = <<>>
                /\ stmt' = stmt
                /\ cursors' = cursors
           ELSE LET binds == CallsOf(ret'.calls, "sqlite3_bind_text")
                IN  (\A j \in 1..Len(binds) : binds[j][3] = StatusOk)
                      => /\ binds = [i \in 1..stmt.k |->
                                        Call("sqlite3_bind_text", i, StatusOk)]
                         /\ Len(CallsOf(ret'.calls, "sqlite3_step")) = 1
                         /\ ret'.rc = StatusRow =>
                               \A i \in 1..stmt.k : stmt'.bind[i] = ParamText(i)
      ]_vars

\* one parameter too many for a Statement with MaxParams slots
C7_Witness ==
    /\ ret.op = "Execute"
    /\ ret.pre
    /\ stmt.k = MaxParams
    /\ ret.n = stmt.k + 1
    /\ ret.error = DriverError

\* C8: FetchMany(n) on a cursor with m >= 1 rows left, no engine call
\* failing, returns no error and exactly the next min(n, m) rows in order,
\* and hasMore stays true exactly if n < m: FetchMany(5) with 3 rows left
\* returns those 3 rows and leaves hasMore false.
C8_FetchManyPartial ==
    (ret.op = "FetchMany" /\ ret.pre /\ ret.m >= 1 /\ ~EngineFailed(ret.calls))
        => /\ ret.error = Nil
           /\ ret.data = RowsFrom(stmt.nrows - ret.m + 1, Min(ret.n, ret.m))
           /\ cursors[ret.cur].more <=> ret.n < ret.m

\* FetchMany(5) with exactly 3 rows left
C8_Witness ==
    /\ ret.op = "FetchMany"
    /\ ret.pre
    /\ ret.n = 5
    /\ ret.m = 3
    /\ Len(ret.data) = 3
    /\ ret.error = Nil
    /\ ~cursors[ret.cur].more

C10_FetchAll ==
    ret.op = "FetchAll" =>
        /\ ret.done
        /\ ~ret.pre => /\ ret.error = DriverError
                       /\ ret.data = NoData
                       /\ ret.calls = <<>>
        /\ (ret.pre /\ ret.m >= 1 /\ ~EngineFailed(ret.calls))
              => /\ ret.error = Nil
                 /\ ret.data = RowsFrom(stmt.nrows - ret.m + 1, ret.m)
                 /\ ~cursors[ret.cur].more
                 /\ Idle(stmt)

\* FetchAll that got all MaxRows rows of a result
C10_Witness ==
    /\ ret.op = "FetchAll"
    /\ ret.pre
    /\ ret.m = MaxRows
    /\ Len(ret.data) = MaxRows
    /\ ret.error = Nil
    /\ Idle(stmt)



\* C11: in the channel-based Execute the consumer receives exactly the
\* Results the successive Fetch calls of the task returned, in their order,
\* none lost and none twice (a Result on offer is the one the last Fetch
\* returned; with no Result on offer the two logs are equal); the channel is
\* closed at most once, once when the task has finished, and only after
\* More() reported false.
C11_ChannelFifo ==
    /\ channel.received = SubSeq(channel.produced, 1, Len(channel.received))
    /\ channel.pc = "send"
        => /\ channel.slot = <<Result(ret.data, ret.error)>>
           /\ ret.op = "Fetch"
           /\ Len(channel.produced) < MaxLog
                => channel.produced = Append(channel.received, channel.slot[1])
    /\ channel.pc # "send"
        => /\ channel.slot = <<>>
           /\ channel.received = channel.produced
    /\ channel.closes <= 1
    /\ channel.pc = "exit" => channel.closes = 1
    /\ channel.closes = 1
        => /\ channel.pc = "exit"
           /\ channel.rset # 0
           /\ ~cursors[channel.rset].more

\* a stream of three rows was received and the channel closed
C11_Witness ==
    /\ channel.pc = "exit"
    /\ channel.closes = 1
    /\ Len(channel.received) = 3
    /\ \A i \in 1..3 : channel.received[i] = Result(RowData(i, stmt.ncols), Nil)

\* C12: whenever the channel-based Execute has returned no error and the
\* consumer keeps receiving, the task eventually closes the channel and
\* terminates; stated for the case the claim names, a Result on offer that
\* carries the engine error of a lookahead step.
C12_ErrorStreamEnds ==
    (channel.pc = "send" /\ channel.slot[1].error = SystemError)
        ~> (channel.pc = "exit" /\ channel.closes = 1)

\* C13: a channel-based Execute whose first step reports SQLITE_DONE returns
\* no error, and the task it starts delivers no Result and does not fault
\* (it goes on to close the channel).
C13_EmptyStreamCloses ==
    (channel.pc # "none" /\ channel.rset = 0)
        => /\ channel.pc \in {"more", "close", "exit"}
           /\ channel.produced = <<>>

\* C14: after any sequence of Prepare, Execute, fetches and cursor Close
\* calls, at most one Cursor / ResultSet of the Statement has hasMore = true.
C14_OneActiveCursor ==
    \A c, d \in 1..Len(cursors) :
        (cursors[c].more /\ cursors[d].more) => c = d

\* C15: Close on a Cursor or a ClassicResultSet returns no error, makes no
\* engine call and leaves hasMore and the Statement as they were, in every
\* state; a compiled query stops being live only in Statement.Close, by
\* sqlite3_finalize.
C15_CursorCloseNoOp ==
    [][/\ ret'.op = "Close"
            => /\ ret'.error = Nil
               /\ ret'.calls = <<>>
               /\ stmt' = stmt
               /\ cursors' = cursors
       /\ (stmt.handle = "live" /\ stmt'.handle # "live")
            => /\ ret'.op = "StatementClose"
               /\ "sqlite3_finalize" \in CallNames(ret'.calls)]_vars

\* a cursor with rows left was closed in the middle of the evaluation, and
\* the Statement still stands on its row
C15_Witness ==
    /\ ret.op = "Close"
    /\ ret.pre
    /\ cursors[ret.cur].more
    /\ stmt.handle = "live"
    /\ stmt.vm = "row"
    /\ stmt.pos = 2

\* C16: once Statement.Close has been called, every later operation on the
\* Statement (Execute, a fetch through a cursor, String, Close again) fails
\* with a DriverError or a SystemError.
C16_ClosedFails ==
    (/\ stmt.handle \in {"finalized", "fault"}
     /\ ret.op \in {"Execute", "Fetch", "String", "StatementClose"}
     /\ ret.pre)
        => ret.error \in {DriverError, SystemError}

\* the place of the first call of the given name in the log, 0 if none
Position(calls, name) ==
    IF name \in CallNames(calls)
    THEN CHOOSE i \in 1..Len(calls) :
            calls[i][1] = name /\ \A j \in 1..(i - 1) : calls[j][1] # name
    ELSE 0

\* the texts of FlagTexts that are no integer
NotIntegerTexts == {<<"x", "6">>, <<"6", "x">>, <<>>}

\* the calls of open that can fail it
OpenSteps ==
    {"sqlite3_open_v2", "sqlite3_busy_timeout", "sqlite3_extended_result_codes"}

\* an engine call of open failed
OpenStepFailed ==
    \E i \in 1..Len(ret.calls) :
        ret.calls[i][1] \in OpenSteps /\ ret.calls[i][3] = StatusError

\* C17: every Open that reaches the engine passes sqlite3_open_v2 flags with
\* the no-mutex bit (0x8000) cleared and the full-mutex bit (0x10000) set,
\* whatever flags the connection string gave (none included).
C17_SerializedFlags ==
    ret.op = "Open"
        => \A i \in 1..Len(ret.calls) :
              ret.calls[i][1] = "sqlite3_open_v2"
                => /\ Bit(ret.calls[i][2].flags, OpenNoMutex) = 0
                   /\ Bit(ret.calls[i][2].flags, OpenFullMutex) = 1

\* flags=32774 (no-mutex, read-write, create) reached the engine as 65542
C17_Witness ==
    /\ ret.op = "Open"
    /\ ret.data.flags = <<"3", "2", "7", "7", "4">>
    /\ Position(ret.calls, "sqlite3_open_v2") = 1
    /\ ret.calls[1][2].flags = 65542

\* C18: if sqlite3_open_v2, the busy timeout or the extended result codes
\* fail, Open returns no Connection and the engine's error as it was read
\* right after the failing call; if the engine handed out a session,
\* Connection.Close is called on it once, after the error was read, and
\* whatever the close reports the error returned stays that one.
C18_OpenFailureCleansUp ==
    (ret.op = "Open" /\ OpenStepFailed)
        => /\ ret.error = SystemError
           /\ ~ret.rset
           /\ ret.n = Position(ret.calls, "sqlite3_errcode")
           /\ ret.calls[ret.n - 1][1] \in OpenSteps
           /\ ret.calls[ret.n - 1][3] = StatusError
           /\ conn.handle # "nil"
                <=> /\ Len(CallsOf(ret.calls, "sqlite3_close")) = 1
                    /\ Position(ret.calls, "sqlite3_close") > ret.n
           /\ conn.handle = "open"
                => ret.calls[Position(ret.calls, "sqlite3_close")][3] = StatusError

\* the busy timeout failed, and so did the close of the session
C18_Witness ==
    /\ ret.op = "Open"
    /\ ret.error = SystemError
    /\ ~ret.rset
    /\ "sqlite3_busy_timeout" \in CallNames(ret.calls)
    /\ "sqlite3_extended_result_codes" \notin CallNames(ret.calls)
    /\ Call("sqlite3_close", 0, StatusError)
            = ret.calls[Position(ret.calls, "sqlite3_close")]
    /\ ret.n = 3
    /\ conn.handle = "open"

\* C19: a Connection returned by Open has had, after sqlite3_open_v2 and in
\* this order, the busy timeout set to 16000 ms and the extended result
\* codes switched on, whatever flags the caller gave.
C19_ConfiguredInOrder ==
    (ret.op = "Open" /\ ret.rset)
        => /\ ret.error = Nil
           /\ Len(ret.calls) = 3
           /\ ret.calls[1][1] = "sqlite3_open_v2"
           /\ ret.calls[1][3] = StatusOk
           /\ ret.calls[2] = Call("sqlite3_busy_timeout", 16000, StatusOk)
           /\ ret.calls[3] = Call("sqlite3_extended_result_codes", 1, StatusOk)
           /\ conn = [handle |-> "open", timeout |-> 16000, extended |-> TRUE]

\* a Connection was returned for a string that asks for no-mutex mode
C19_Witness ==
    /\ ret.op = "Open"
    /\ ret.rset
    /\ ret.data.flags = <<"3", "2", "7", "6", "8">>
    /\ conn.timeout = 16000
    /\ conn.extended

\* C20: Open of a connection string with a scheme that is not empty and not
\* "sqlite3", with an empty path, or with a flags option that is no integer
\* returns an error and no Connection, and makes no engine call.
C20_BadStringRefused ==
    (/\ ret.op = "Open"
     /\ \/ ret.data.scheme \notin {<<>>, DriverName \o <<":">>}
        \/ ret.data.path = <<>>
        \/ ret.data.flags \in NotIntegerTexts)
        => /\ ret.error \in {DriverError, ParseError}
           /\ ~ret.rset
           /\ ret.calls = <<>>
           /\ conn = NoSession

\* "pg://h/db" was refused with a DriverError
C20_Witness ==
    /\ ret.op = "Open"
    /\ ret.data.scheme = <<"p", "g", ":">>
    /\ ret.data.authority = <<"/", "/", "h">>
    /\ ret.data.path = <<"/", "d", "b">>
    /\ ret.data.flags = NoFlags
    /\ ret.error = DriverError
    /\ ret.calls = <<>>


\* C21: every engine error Connection.error builds carries the engine's
\* current code as its extended code, and that code's low byte (extended
\* & 0xff, between 0 and 255) as its basic code.
C21_BasicIsLowByte ==
    ret.op = "error" =>
        /\ ret.data.extended = ret.n
        /\ ret.data.basic = ret.data.extended % 256
        /\ ret.data.basic \in 0..255

\* an extended code (SQLITE_IOERR_READ) was read and masked to SQLITE_IOERR
C21_Witness ==
    /\ ret.op = "error"
    /\ ret.n = 266
    /\ ret.data.extended = 266
    /\ ret.data.basic = 10


\* the position of the first engine call of the log that failed, 0 if none
FirstFailure(calls) ==
    IF \E i \in 1..Len(calls) : calls[i][3] = StatusError
    THEN CHOOSE i \in 1..Len(calls) :
            /\ calls[i][3] = StatusError
            /\ \A j \in 1..(i - 1) : calls[j][3] # StatusError
    ELSE 0

\* the operations that report engine errors
FailingOps ==
    {"Open", "Prepare", "Execute", "Fetch", "FetchOne", "FetchRow",
     "FetchMany", "FetchAll"}

\* C22: on every failure path of Open, Prepare, Execute and the fetch
\* operations the engine's error code and message are read immediately after
\* the failing engine call: the two calls that follow the first failed call
\* are sqlite3_errcode and sqlite3_errmsg, before any close, finalize, reset
\* or clear_bindings.
C22_ErrorReadAtOnce ==
    (ret.op \in FailingOps /\ ret.error = SystemError) =>
        LET i == FirstFailure(ret.calls)
        IN  /\ i > 0
            /\ Len(ret.calls) >= i + 2
            /\ ret.calls[i + 1][1] = "sqlite3_errcode"
            /\ ret.calls[i + 2][1] = "sqlite3_errmsg"

\* after init and a successful Open, an Execute whose bind failed: the error
\* was read right after the bind, the clean-up came after the read
C22_Witness ==
    /\ process.opens = 1
    /\ ret.op = "Execute"
    /\ ret.error = SystemError
    /\ Len(ret.calls) = 6
    /\ ret.calls[2] = Call("sqlite3_bind_text", 1, StatusError)
    /\ ret.calls[3][1] = "sqlite3_errcode"
    /\ ret.calls[5][1] = "sqlite3_reset"


\* the position of the bind of the log that failed, 0 if none
FailedBind(calls) ==
    IF \E i \in 1..Len(calls) :
            calls[i][1] = "sqlite3_bind_text" /\ calls[i][3] = StatusError
    THEN CHOOSE i \in 1..Len(calls) :
            calls[i][1] = "sqlite3_bind_text" /\ calls[i][3] = StatusError
    ELSE 0

\* C23: if binding a parameter fails during Execute, binding stops at that
\* parameter, the engine error is returned with no cursor, no step is made,
\* and the Statement is reset and cleared of its bindings, ready for a later
\* Execute.
C23_BindFailureCleans ==
    (ret.op = "Execute" /\ FailedBind(ret.calls) > 0) =>
        /\ \A j \in (FailedBind(ret.calls) + 1)..Len(ret.calls) :
                ret.calls[j][1] # "sqlite3_bind_text"
        /\ ret.error = SystemError
        /\ ~ret.rset
        /\ ret.cur = 0
        /\ "sqlite3_step" \notin CallNames(ret.calls)
        /\ Idle(stmt)


\* the binds of the log, in the order they were made
Binds(calls) == CallsOf(calls, "sqlite3_bind_text")

\* C24: Execute binds the i-th parameter it is given to slot i, in
\* increasing order of the slots and each slot once, and makes its first
\* step only after every bind has succeeded: the i-th bind of the log is the
\* one of slot i; a step in the log comes after one successful bind per
\* parameter; and a Statement that is producing rows holds the i-th
\* parameter in slot i.
C24_BindsInOrder ==
    ret.op = "Execute" =>
        /\ \A m \in 1..Len(Binds(ret.calls)) : Binds(ret.calls)[m][2] = m
        /\ Len(Binds(ret.calls)) <= ret.n
        /\ "sqlite3_step" \in CallNames(ret.calls) =>
              /\ Len(Binds(ret.calls)) = ret.n
              /\ \A m \in 1..ret.n : Binds(ret.calls)[m][3] = StatusOk
              /\ Position(ret.calls, "sqlite3_step") = ret.n + 2
              /\ Len(CallsOf(ret.calls, "sqlite3_step")) = 1
        /\ ret.rset => \A i \in 1..ret.n : stmt.bind[i] = ret.data[i]

\* three parameters were bound to the slots 1, 2, 3 and the step gave a row
C24_Witness ==
    /\ ret.op = "Execute"
    /\ ret.n = 3
    /\ ret.rset
    /\ ret.calls[2] = Call("sqlite3_bind_text", 1, StatusOk)
    /\ ret.calls[3] = Call("sqlite3_bind_text", 2, StatusOk)
    /\ ret.calls[4] = Call("sqlite3_bind_text", 3, StatusOk)
    /\ ret.calls[5] = Call("sqlite3_step", 0, StatusRow)
    /\ stmt.bind = <<ParamText(1), ParamText(2), ParamText(3)>>


\* C25: when the engine's prepare fails, Prepare returns an engine error and
\* no Statement; a handle the engine left behind all the same has been
\* finalized, once, as the last engine call before Prepare returns; and the
\* error returned is the one read right after the failed prepare, whatever
\* the finalize answered: nothing is read after it.
C25_PrepareFailureFinalizes ==
    (ret.op = "Prepare" /\ ret.calls[1][3] = StatusError) =>
        /\ ret.error = SystemError
        /\ stmt = NoStatement
        /\ ret.n = 2
        /\ ret.calls[2][1] = "sqlite3_errcode"
        /\ Len(CallsOf(ret.calls, "sqlite3_finalize")) = IF ret.pre THEN 1 ELSE 0
        /\ ret.pre => ret.calls[Len(ret.calls)][1] = "sqlite3_finalize"
        /\ Len(CallsOf(ret.calls, "sqlite3_errcode")) = 1

\* the prepare failed, left a handle, and finalizing that handle failed too
C25_Witness ==
    /\ ret.op = "Prepare"
    /\ ret.pre
    /\ ret.error = SystemError
    /\ stmt = NoStatement
    /\ ret.calls[1] = Call("sqlite3_prepare_v2", 0, StatusError)
    /\ ret.calls[4] = Call("sqlite3_finalize", 0, StatusError)


\* C26: the process-wide sqlite3_config call for serialized mode is made
\* exactly once, by the package's initialization, and precedes every
\* sqlite3_open_v2; if it fails the program dies in initialization and no
\* Connection is ever opened.
C26_ConfiguredOnceBeforeOpen ==
    /\ process.configs = IF process.pc = "load" THEN 0 ELSE 1
    /\ process.opens > 0 =>
          /\ process.configs = 1
          /\ process.serialized
          /\ process.pc = "run"
    /\ process.pc = "run" => process.serialized
    /\ process.pc = "panic" =>
          /\ ~process.serialized
          /\ process.opens = 0
          /\ conn = NoSession
          /\ ret.op = "init"

\* initialization succeeded, then Open reached the engine and got a session
C26_Witness ==
    /\ process = [pc |-> "run", configs |-> 1, opens |-> 1, serialized |-> TRUE]
    /\ ret.op = "Open"
    /\ ret.calls[1][1] = "sqlite3_open_v2"
    /\ conn = OpenSession


\* C27: when the channel-based Execute fails (not a Statement of this
\* driver, wrong number of parameters, a bind or the first step failed) it
\* returns the error and a nil channel and starts no task: from its return
\* until the program's next call no task is running, so nothing calls the
\* engine on the Statement.
C27_FailedExecuteNoTask ==
    (ret.op = "ExecuteChannel" /\ ret.error # Nil) =>
        /\ ~channel.returned
        /\ channel.pc \in {"none", "exit"}
        /\ ~ret.rset
        /\ ret.cur = 0

\* after a first stream ran to its end, an Execute whose first step failed
C27_Witness ==
    /\ ret.op = "ExecuteChannel"
    /\ ret.error = SystemError
    /\ ret.rc = StatusError
    /\ ~channel.returned
    /\ channel.pc = "exit"
    /\ channel.closes = 1


\* C28: in the channel-based Execute the task never runs more than one row
\* ahead of what it is offering: the sqlite3_step calls made for the
\* execution number at most the Results the consumer has received plus 2;
\* and while a Result is on offer nothing happens but its receipt: the
\* engine is not stepped until the consumer has taken it.
C28_OneRowAhead ==
    /\ [](channel.ahead <= 2)
    /\ [][channel.pc = "send" =>
            /\ stmt' = stmt
            /\ channel'.pc = "more"
            /\ channel'.ahead = channel.ahead - 1]_vars

\* the first step and the lookahead step of row 1 are made, row 1 is on
\* offer and the consumer has received nothing yet
C28_Witness ==
    /\ channel.pc = "send"
    /\ channel.received = <<>>
    /\ channel.ahead = 2
    /\ channel.slot[1].error = Nil
    /\ stmt.vm = "row"
    /\ stmt.pos = 2


\* the number of rows whose column values the calls of the log read
RowsRead(calls) ==
    Len(SelectSeq(calls, LAMBDA x : x[1] = "wsq_column_text" /\ x[2] = 0))

\* C29: FetchMany and FetchAll never drop a row they consumed: every row
\* whose column values an inner FetchOne read from the engine is among the
\* rows returned, also when the lookahead step after it failed.
C29_NoRowDropped ==
    ret.op \in {"FetchMany", "FetchAll"} => RowsRead(ret.calls) = Len(ret.data)


\* C30: every Execute that returns a cursor starts a fresh evaluation of the
\* Statement: the row current when it returns, the first the new cursor
\* delivers, is row 1 of the result, also when an earlier cursor of the
\* Statement was closed or left before it was exhausted.
C30_ExecuteStartsAtFirstRow ==
    (ret.op = "Execute" /\ ret.rset) => (stmt.vm = "row" /\ stmt.pos = 1)

====
